---- MODULE Spec2Model ----
(***************************************************************************)
(* Model of asyncssh/known_hosts.py: the parser and matcher for OpenSSH    *)
(* known_hosts files.                                                      *)
(*                                                                         *)
(* Byte strings are sequences of one-character strings.  Python's None is  *)
(* the empty tuple: no marker token, no parsed ip and no network is ever   *)
(* empty, so the encoding is unambiguous.                                  *)
(***************************************************************************)
EXTENDS Integers, Sequences, FiniteSets, TLC

VARIABLES
    pc,            \* position inside match_known_hosts / HostList.matches
    known_hosts,   \* the raw bytes of the known_hosts file
    host,          \* the host argument
    ip,            \* the ip argument: a parsed IPv4 address (4 octets) or None
    port,          \* the port argument
    entries,       \* the result of _parse_entries
    host_keys,     \* the three lists of the last match pass
    ca_keys,
    revoked_keys,
    passes,        \* history: the port each call of _match_entries was given
    result,        \* what match_known_hosts returned (None until it returns)
    error,         \* the ValueError that left match_known_hosts, if any
    pattern,       \* HostList unit: the pattern field
    addr,          \* HostList unit: the addr argument
    matched        \* HostList unit: what HostList(pattern).matches returned

vars == <<pc, known_hosts, host, ip, port, entries, host_keys, ca_keys,
          revoked_keys, passes, result, error, pattern, addr, matched>>

None == << >>

DEFAULT_PORT == 22

(***************************************************************************)
(* Bytes helpers: the str/bytes methods the module uses.                   *)
(***************************************************************************)

SP == " "
NL == "\n"

IsSpace(c) == c \in {" ", "\t"}

RECURSIVE Cat(_)
\* b''.join(parts)
Cat(parts) == IF parts = << >> THEN << >> ELSE Head(parts) \o Cat(Tail(parts))

RECURSIVE Join(_, _)
\* sep.join(parts)
Join(parts, sep) ==
    IF parts = << >> THEN << >>
    ELSE IF Len(parts) = 1 THEN parts[1]
    ELSE parts[1] \o sep \o Join(Tail(parts), sep)

StartsWith(s, c) == Len(s) > 0 /\ s[1] = c

RECURSIVE LStrip(_)
LStrip(s) == IF s # << >> /\ IsSpace(s[1]) THEN LStrip(Tail(s)) ELSE s

RECURSIVE RStrip(_)
RStrip(s) ==
    IF s # << >> /\ IsSpace(s[Len(s)]) THEN RStrip(SubSeq(s, 1, Len(s) - 1)) ELSE s

\* bytes.strip()
Strip(s) == RStrip(LStrip(s))

\* the index of the first c in s, or 0
FirstIndex(s, c) ==
    IF \E i \in 1..Len(s) : s[i] = c
    THEN CHOOSE i \in 1..Len(s) : s[i] = c /\ \A j \in 1..(i - 1) : s[j] # c
    ELSE 0

RECURSIVE SplitOn(_, _)
\* bytes.split(sep) for a one-byte separator: empty pieces are kept
SplitOn(s, c) ==
    LET i == FirstIndex(s, c)
    IN  IF i = 0 THEN <<s>>
        ELSE <<SubSeq(s, 1, i - 1)>> \o SplitOn(SubSeq(s, i + 1, Len(s)), c)

\* bytes.splitlines(): a trailing line break opens no further line
SplitLines(s) ==
    LET parts == SplitOn(s, NL)
    IN  IF parts[Len(parts)] = << >> THEN SubSeq(parts, 1, Len(parts) - 1)
        ELSE parts

FirstSpace(s) ==
    IF \E i \in 1..Len(s) : IsSpace(s[i])
    THEN CHOOSE i \in 1..Len(s) : IsSpace(s[i]) /\ \A j \in 1..(i - 1) : ~IsSpace(s[j])
    ELSE 0

RECURSIVE SplitWS(_, _)
\* bytes.split(None, maxsplit): runs of whitespace separate the tokens, leading
\* whitespace is dropped, and after maxsplit splits the rest is one token
SplitWS(s, maxsplit) ==
    LET t == LStrip(s)
        i == FirstSpace(t)
    IN  IF t = << >> THEN << >>
        ELSE IF maxsplit = 0 \/ i = 0 THEN <<t>>
        ELSE <<SubSeq(t, 1, i - 1)>> \o SplitWS(SubSeq(t, i + 1, Len(t)), maxsplit - 1)

Digits == <<"0", "1", "2", "3", "4", "5", "6", "7", "8", "9">>

IsDigit(c) == \E d \in 1..10 : Digits[d] = c

DigitVal(c) == (CHOOSE d \in 1..10 : Digits[d] = c) - 1

RECURSIVE ParseInt(_)
\* int(s) for a non-empty string of decimal digits
ParseInt(s) ==
    IF Len(s) = 1 THEN DigitVal(s[1])
    ELSE 10 * ParseInt(SubSeq(s, 1, Len(s) - 1)) + DigitVal(s[Len(s)])

RECURSIVE FormatInt(_)
\* '{}'.format(n) for n >= 0
FormatInt(n) ==
    IF n < 10 THEN <<Digits[n + 1]>>
    ELSE FormatInt(n \div 10) \o <<Digits[(n % 10) + 1]>>

(***************************************************************************)
(* ipaddress: ip_network(text) and str(ip), for IPv4.  An address is its   *)
(* four octets.  No string of the alphabet used here is an IPv6 literal or *)
(* a dotted netmask, the other forms ip_network accepts.                   *)
(***************************************************************************)

Pow2(n) == IF n = 0 THEN 1 ELSE IF n = 1 THEN 2 ELSE IF n = 2 THEN 4
           ELSE IF n = 3 THEN 8 ELSE IF n = 4 THEN 16 ELSE IF n = 5 THEN 32
           ELSE IF n = 6 THEN 64 ELSE IF n = 7 THEN 128 ELSE 256

Min(a, b) == IF a < b THEN a ELSE b
Max(a, b) == IF a > b THEN a ELSE b

\* how many of the 8 bits of octet k (1..4) a prefix of length plen leaves free
HostBits(k, plen) == 8 - Max(0, Min(8, plen - 8 * (k - 1)))

IsOctet(s) ==
    /\ Len(s) \in 1..3
    /\ \A i \in 1..Len(s) : IsDigit(s[i])
    /\ ParseInt(s) <= 255

IsPrefixLen(s) ==
    /\ Len(s) \in 1..2
    /\ \A i \in 1..Len(s) : IsDigit(s[i])
    /\ ParseInt(s) <= 32

NoNetwork == [ok |-> FALSE, address |-> << >>, prefixlen |-> 0]

\* ip_network(text), strict: ok = FALSE stands for the ValueError
ip_network(text) ==
    LET parts  == SplitOn(text, "/")
        octets == SplitOn(parts[1], ".")
    IN  IF Len(parts) > 2 \/ Len(octets) # 4 THEN NoNetwork
        ELSE IF \E k \in 1..4 : ~IsOctet(octets[k]) THEN NoNetwork
        ELSE IF Len(parts) = 2 /\ ~IsPrefixLen(parts[2]) THEN NoNetwork
        ELSE LET address == [k \in 1..4 |-> ParseInt(octets[k])]
                 plen    == IF Len(parts) = 2 THEN ParseInt(parts[2]) ELSE 32
             IN  IF \E k \in 1..4 : address[k] % Pow2(HostBits(k, plen)) # 0
                 THEN NoNetwork      \* has host bits set
                 ELSE [ok |-> TRUE, address |-> address, prefixlen |-> plen]

\* ip in network
InNetwork(a, net) ==
    \A k \in 1..4 :
        a[k] \div Pow2(HostBits(k, net.prefixlen))
            = net.address[k] \div Pow2(HostBits(k, net.prefixlen))

\* str(ip)
FormatIP(a) == Join([k \in 1..4 |-> FormatInt(a[k])], <<".">>)

(***************************************************************************)
(* fnmatch(value, pattern): '*', '?' and bracket expressions.              *)
(***************************************************************************)

\* the index of the ']' closing the bracket expression opened at p[1], or 0
ClassEnd(p) ==
    LET j1 == IF Len(p) >= 2 /\ p[2] = "!" THEN 3 ELSE 2
        j2 == IF Len(p) >= j1 /\ p[j1] = "]" THEN j1 + 1 ELSE j1
    IN  IF \E j \in j2..Len(p) : p[j] = "]"
        THEN CHOOSE j \in j2..Len(p) : p[j] = "]" /\ \A k \in j2..(j - 1) : p[k] # "]"
        ELSE 0

InClass(c, stuff) ==
    IF stuff[1] = "!" THEN \A i \in 2..Len(stuff) : stuff[i] # c
    ELSE \E i \in 1..Len(stuff) : stuff[i] = c

RECURSIVE fnmatch(_, _)
fnmatch(v, p) ==
    IF p = << >> THEN v = << >>
    ELSE IF p[1] = "*"
        THEN \E k \in 0..Len(v) : fnmatch(SubSeq(v, k + 1, Len(v)), Tail(p))
    ELSE IF p[1] = "?"
        THEN v # << >> /\ fnmatch(Tail(v), Tail(p))
    ELSE IF p[1] = "[" /\ ClassEnd(p) # 0
        THEN /\ v # << >>
             /\ InClass(v[1], SubSeq(p, 2, ClassEnd(p) - 1))
             /\ fnmatch(Tail(v), SubSeq(p, ClassEnd(p) + 1, Len(p)))
    ELSE v # << >> /\ v[1] = p[1] /\ fnmatch(Tail(v), Tail(p))

(***************************************************************************)
(* _WildcardPattern and _CIDRPattern                                       *)
(***************************************************************************)

\* a plausible slip: the square brackets reach fnmatch unescaped
EscapeNothing(b) == <<b>>

EscapeByte(b) == IF b = "[" THEN <<"[", "[", "]">>
                 ELSE IF b = "]" THEN <<"[", "]", "]">>
                 ELSE <<b>>

\* _WildcardPattern.__init__
WildcardPattern(p) ==
    [kind |-> "wildcard",
     pat  |-> Cat([i \in 1..Len(p) |-> EscapeByte(p[i])]),
     net  |-> NoNetwork]

\* _CIDRPattern.__init__ (only built when ip_network does not raise)
CIDRPattern(p) == [kind |-> "cidr", pat |-> << >>, net |-> ip_network(p)]

\* a plausible slip: both fields must match
WildcardMatchesBoth(pt, h, a, i) ==
    (h # << >> /\ fnmatch(h, pt.pat)) /\ (a # << >> /\ fnmatch(a, pt.pat))

\* _WildcardPattern.matches
WildcardMatches(pt, h, a, i) ==
    (h # << >> /\ fnmatch(h, pt.pat)) \/ (a # << >> /\ fnmatch(a, pt.pat))

\* _CIDRPattern.matches
CIDRMatches(pt, h, a, i) == i # None /\ InNetwork(i, pt.net)

PatternMatches(pt, h, a, i) ==
    IF pt.kind = "cidr" THEN CIDRMatches(pt, h, a, i)
    ELSE WildcardMatches(pt, h, a, i)

(***************************************************************************)
(* HostList                                                                *)
(***************************************************************************)

\* a plausible slip: the glob is tried first, so it is always taken
MakeWildcardFirst(p) == WildcardPattern(p)

\* try: _CIDRPattern(p)  except (ValueError, UnicodeDecodeError): _WildcardPattern(p)
MakePattern(p) == IF ip_network(p).ok THEN CIDRPattern(p) ELSE WildcardPattern(p)

Negated(piece) == StartsWith(piece, "!")

Unnegated(piece) == IF Negated(piece) THEN Tail(piece) ELSE piece

RECURSIVE HostListLoop(_, _, _)
\* the loop of HostList.__init__ over pattern.split(b',')
HostListLoop(pieces, pos, neg) ==
    IF pieces = << >> THEN [pos |-> pos, neg |-> neg]
    ELSE LET p == Head(pieces)
         IN  IF Negated(p)
             THEN HostListLoop(Tail(pieces), pos, Append(neg, MakePattern(Unnegated(p))))
             ELSE HostListLoop(Tail(pieces), Append(pos, MakePattern(Unnegated(p))), neg)

\* HostList.__init__
HostList(pat) ==
    LET l == HostListLoop(SplitOn(pat, ","), << >>, << >>)
    IN  [kind |-> "HostList", pos |-> l.pos, neg |-> l.neg,
         salt |-> << >>, hosthash |-> << >>]

\* a plausible slip: 'or' for 'and'
HostListMatchesOr(e, h, a, i) ==
    LET pos_match == \E k \in 1..Len(e.pos) : PatternMatches(e.pos[k], h, a, i)
        neg_match == \E k \in 1..Len(e.neg) : PatternMatches(e.neg[k], h, a, i)
    IN  pos_match \/ ~neg_match

\* HostList.matches
HostListMatches(e, h, a, i) ==
    LET pos_match == \E k \in 1..Len(e.pos) : PatternMatches(e.pos[k], h, a, i)
        neg_match == \E k \in 1..Len(e.neg) : PatternMatches(e.neg[k], h, a, i)
    IN  pos_match /\ ~neg_match

(***************************************************************************)
(* HashedHost.  binascii.a2b_base64 is modelled by the characters that     *)
(* carry data (it skips the others and raises on an incomplete quantum),   *)
(* and HMAC-SHA1 by a collision-free stand-in: the salt followed by the    *)
(* value.                                                                  *)
(***************************************************************************)

_HMAC_SHA1_MAGIC == <<"1">>

B64Pad == "="

IsB64(c) == c \in {"a", "b", "c", "k", "s", "r", "x", "y", "z"} \/ IsDigit(c)

RECURSIVE B64Data(_)
B64Data(s) ==
    IF s = << >> THEN << >>
    ELSE IF IsB64(s[1]) THEN <<s[1]>> \o B64Data(Tail(s))
    ELSE B64Data(Tail(s))

B64Pads(s) == Cardinality({i \in 1..Len(s) : s[i] = B64Pad})

\* binascii.a2b_base64(s): ok = FALSE stands for binascii.Error
a2b_base64(s) ==
    LET data == B64Data(s)
        r    == Len(data) % 4
    IN  [ok   |-> r = 0 \/ (r = 2 /\ B64Pads(s) >= 2) \/ (r = 3 /\ B64Pads(s) >= 1),
         data |-> data]

\* hmac.new(salt, value, sha1).digest()
hmac_sha1(salt, value) == salt \o value

NoError == [msg |-> "", text |-> << >>]

\* HashedHost.__init__: the ValueError it raises, or NoError
HashedHostError(pat) ==
    LET parts == SplitOn(Tail(pat), "|")
    IN  IF Len(parts) # 3 THEN [msg |-> "Invalid known hosts hash entry", text |-> pat]
        ELSE IF ~a2b_base64(parts[2]).ok \/ ~a2b_base64(parts[3]).ok
            THEN [msg |-> "Invalid known hosts hash entry", text |-> pat]
        ELSE IF parts[1] # _HMAC_SHA1_MAGIC
            THEN [msg |-> "Invalid known hosts hash type", text |-> parts[1]]
        ELSE NoError

\* HashedHost.__init__, when it does not raise
HashedHost(pat) ==
    LET parts == SplitOn(Tail(pat), "|")
    IN  [kind |-> "HashedHost", pos |-> << >>, neg |-> << >>,
         salt |-> a2b_base64(parts[2]).data, hosthash |-> a2b_base64(parts[3]).data]

\* HashedHost.matches
HashedHostMatches(e, h, a, i) ==
    \/ (h # << >> /\ hmac_sha1(e.salt, h) = e.hosthash)
    \/ (a # << >> /\ hmac_sha1(e.salt, a) = e.hosthash)

\* entry.matches(host, addr, ip)
EntryMatches(e, h, a, i) ==
    IF e.kind = "HashedHost" THEN HashedHostMatches(e, h, a, i)
    ELSE HostListMatches(e, h, a, i)

(***************************************************************************)
(* _parse_entries                                                          *)
(***************************************************************************)

CERT_AUTHORITY == <<"c", "e", "r", "t", "-", "a", "u", "t", "h", "o", "r", "i", "t", "y">>
REVOKED == <<"r", "e", "v", "o", "k", "e", "d">>

KeyAlgorithms == {<<"r", "s", "a">>}

\* import_public_key(key): the decoded key, or ok = FALSE for KeyImportError.
\* The key material is "algorithm data [comment]"; the decoded key is its data.
import_public_key(key) ==
    LET t == SplitWS(key, Len(key))
    IN  IF Len(t) >= 2 /\ t[1] \in KeyAlgorithms
        THEN [ok |-> TRUE, key |-> t[2]]
        ELSE [ok |-> FALSE, key |-> << >>]

\* the tokens of a stripped line: <<marker, pattern, key>>, or << >> for the
\* ValueError of the tuple assignment
LineTokens(line) ==
    IF StartsWith(line, "@")
    THEN LET t == SplitWS(Tail(line), 2) IN IF Len(t) = 3 THEN t ELSE << >>
    ELSE LET t == SplitWS(line, 1) IN IF Len(t) = 2 THEN <<None>> \o t ELSE << >>

IsContent(line) == line # << >> /\ ~StartsWith(line, "#")

ValidMarker(marker) == marker \in {None, CERT_AUTHORITY, REVOKED}

\* the ValueError the body of the loop raises on a stripped content line, or NoError
LineError(line) ==
    LET t == LineTokens(line)
    IN  IF t = << >> THEN [msg |-> "Invalid known hosts entry", text |-> line]
        ELSE IF ~ValidMarker(t[1])
            THEN [msg |-> "Invalid known hosts marker", text |-> t[1]]
        ELSE IF StartsWith(t[2], "|") THEN HashedHostError(t[2])
        ELSE NoError

\* the entry a content line without error stands for (its key still undecoded)
LineEntry(line) ==
    LET t == LineTokens(line)
        m == IF StartsWith(t[2], "|") THEN HashedHost(t[2]) ELSE HostList(t[2])
    IN  [kind |-> m.kind, pos |-> m.pos, neg |-> m.neg, salt |-> m.salt,
         hosthash |-> m.hosthash, marker |-> t[1],
         key |-> import_public_key(t[3]).key]

\* a plausible slip: the ValueError of a line is swallowed like KeyImportError
RECURSIVE ParseLoopSkipErrors(_, _)
ParseLoopSkipErrors(lines, acc) ==
    IF lines = << >> THEN [entries |-> acc, error |-> NoError]
    ELSE LET line == Strip(Head(lines))
         IN  IF ~IsContent(line) THEN ParseLoopSkipErrors(Tail(lines), acc)
             ELSE IF LineError(line) # NoError
                 THEN ParseLoopSkipErrors(Tail(lines), acc)
             ELSE IF ~import_public_key(LineTokens(line)[3]).ok
                 THEN ParseLoopSkipErrors(Tail(lines), acc)
             ELSE ParseLoopSkipErrors(Tail(lines), Append(acc, LineEntry(line)))

\* a plausible slip: a key that fails to import ends the loop (break for continue)
RECURSIVE ParseLoopBreak(_, _)
ParseLoopBreak(lines, acc) ==
    IF lines = << >> THEN [entries |-> acc, error |-> NoError]
    ELSE LET line == Strip(Head(lines))
         IN  IF ~IsContent(line) THEN ParseLoopBreak(Tail(lines), acc)
             ELSE IF LineError(line) # NoError
                 THEN [entries |-> << >>, error |-> LineError(line)]
             ELSE IF ~import_public_key(LineTokens(line)[3]).ok
                 THEN [entries |-> acc, error |-> NoError]
             ELSE ParseLoopBreak(Tail(lines), Append(acc, LineEntry(line)))

\* the loop of _parse_entries over known_hosts.splitlines()
RECURSIVE ParseLoop(_, _)
ParseLoop(lines, acc) ==
    IF lines = << >> THEN [entries |-> acc, error |-> NoError]
    ELSE LET line == Strip(Head(lines))
         IN  IF ~IsContent(line) THEN ParseLoop(Tail(lines), acc)
             ELSE IF LineError(line) # NoError
                 THEN [entries |-> << >>, error |-> LineError(line)]
             ELSE IF ~import_public_key(LineTokens(line)[3]).ok
                 THEN ParseLoop(Tail(lines), acc)
             ELSE ParseLoop(Tail(lines), Append(acc, LineEntry(line)))

_parse_entries(bytes) == ParseLoop(SplitLines(bytes), << >>)

(***************************************************************************)
(* _match_entries and match_known_hosts                                    *)
(***************************************************************************)

\* '[{}]:{}'.format(name, port)
Bracketed(name, p) == <<"[">> \o name \o <<"]", ":">> \o FormatInt(p)

\* a plausible slip: the port is left out of the host matched with
MatchHostPlain(h, p) == h

\* the host _match_entries matches with
MatchHost(h, p) == IF p # DEFAULT_PORT THEN Bracketed(h, p) ELSE h

\* the addr _match_entries matches with
MatchAddr(i, p) ==
    LET a == IF i # None THEN FormatIP(i) ELSE << >>
    IN  IF p # DEFAULT_PORT /\ a # << >> THEN Bracketed(a, p) ELSE a

\* a plausible slip: the revoked branch is missing
ListForNoRevoked(marker) ==
    IF marker = CERT_AUTHORITY THEN "ca" ELSE "host"

\* the list the if/elif/else of _match_entries appends a matching entry's key to
ListFor(marker) ==
    IF marker = REVOKED THEN "revoked"
    ELSE IF marker = CERT_AUTHORITY THEN "ca"
    ELSE "host"

RECURSIVE MatchLoop(_, _, _, _, _)
\* the loop of _match_entries; acc is <<host_keys, ca_keys, revoked_keys>>
MatchLoop(es, h, a, i, acc) ==
    IF es = << >> THEN acc
    ELSE LET e == Head(es)
             l == ListFor(e.marker)
         IN  IF ~EntryMatches(e, h, a, i) THEN MatchLoop(Tail(es), h, a, i, acc)
             ELSE IF l = "revoked"
                 THEN MatchLoop(Tail(es), h, a, i, <<acc[1], acc[2], Append(acc[3], e.key)>>)
             ELSE IF l = "ca"
                 THEN MatchLoop(Tail(es), h, a, i, <<acc[1], Append(acc[2], e.key), acc[3]>>)
             ELSE MatchLoop(Tail(es), h, a, i, <<Append(acc[1], e.key), acc[2], acc[3]>>)

_match_entries(es, h, i, p) ==
    MatchLoop(es, MatchHost(h, p), MatchAddr(i, p), i, <<<< >>, << >>, << >>>>)

\* a plausible slip: a revoked match counts as a match too
NeedFallbackNoMatchAtAll(p, hk, ck, rk) ==
    p # DEFAULT_PORT /\ ~(hk # << >> \/ ck # << >> \/ rk # << >>)

\* a plausible slip: the fallback is tried on every port
NeedFallbackAnyPort(p, hk, ck, rk) == ~(hk # << >> \/ ck # << >>)

\* the condition of line 199
NeedFallback(p, hk, ck, rk) == p # DEFAULT_PORT /\ ~(hk # << >> \/ ck # << >>)

\* match_known_hosts on parsed entries, as a function of its arguments
MatchKnownHosts(es, h, i, p) ==
    LET r == _match_entries(es, h, i, p)
    IN  IF NeedFallback(p, r[1], r[2], r[3]) THEN _match_entries(es, h, i, DEFAULT_PORT)
        ELSE r

\* where each statement of match_known_hosts may run
AtParse == pc = "start"
AtPrimaryPass == pc = "parsed"
AtFallbackPass ==
    pc = "matched" /\ NeedFallback(port, host_keys, ca_keys, revoked_keys)
AtReturn ==
    /\ pc \in {"matched", "rematched"}
    /\ pc = "matched" => ~NeedFallback(port, host_keys, ca_keys, revoked_keys)

\* line 195
Parse ==
    /\ AtParse
    /\ LET r == _parse_entries(known_hosts)
       IN  /\ entries' = r.entries
           /\ error' = r.error
           /\ pc' = IF r.error = NoError THEN "parsed" ELSE "failed"
    /\ UNCHANGED <<known_hosts, host, ip, port, host_keys, ca_keys, revoked_keys,
                   passes, result, pattern, addr, matched>>

\* line 197
PrimaryPass ==
    /\ AtPrimaryPass
    /\ LET r == _match_entries(entries, host, ip, port)
       IN  /\ host_keys' = r[1]
           /\ ca_keys' = r[2]
           /\ revoked_keys' = r[3]
    /\ passes' = Append(passes, port)
    /\ pc' = "matched"
    /\ UNCHANGED <<known_hosts, host, ip, port, entries, result, error,
                   pattern, addr, matched>>

\* lines 199-200
FallbackPass ==
    /\ AtFallbackPass
    /\ LET r == _match_entries(entries, host, ip, DEFAULT_PORT)
       IN  /\ host_keys' = r[1]
           /\ ca_keys' = r[2]
           /\ revoked_keys' = r[3]
    /\ passes' = Append(passes, DEFAULT_PORT)
    /\ pc' = "rematched"
    /\ UNCHANGED <<known_hosts, host, ip, port, entries, result, error,
                   pattern, addr, matched>>

\* line 202
Return ==
    /\ AtReturn
    /\ result' = <<host_keys, ca_keys, revoked_keys>>
    /\ pc' = "done"
    /\ UNCHANGED <<known_hosts, host, ip, port, entries, host_keys, ca_keys,
                   revoked_keys, passes, error, pattern, addr, matched>>

\* HostList(pattern).matches(host, addr, ip), on its own
HostListCall ==
    /\ pc = "unit"
    /\ matched' = HostListMatches(HostList(pattern), host, addr, ip)
    /\ pc' = "unit done"
    /\ UNCHANGED <<known_hosts, host, ip, port, entries, host_keys, ca_keys,
                   revoked_keys, passes, result, error, pattern, addr>>

(***************************************************************************)
(* Inputs: known_hosts lines, hosts, addresses and ports.                  *)
(***************************************************************************)

MaxLines == 2

\* ab rsa k1
L_host == <<"a", "b", " ", "r", "s", "a", " ", "k", "1">>

\* [ab]:7 rsa k2
L_pin == <<"[", "a", "b", "]", ":", "7", " ", "r", "s", "a", " ", "k", "2">>

\* @revoked [ab]:7 rsa k3
L_pin_revoked == <<"@", "r", "e", "v", "o", "k", "e", "d", " ", "[", "a", "b", "]", ":", "7", " ", "r", "s", "a", " ", "k", "3">>

\* 1.0.0.2 rsa k4
L_addr == <<"1", ".", "0", ".", "0", ".", "2", " ", "r", "s", "a", " ", "k", "4">>

\* @cert-authority *b rsa k5
L_ca_glob == <<"@", "c", "e", "r", "t", "-", "a", "u", "t", "h", "o", "r", "i", "t", "y", " ", "*", "b", " ", "r", "s", "a", " ", "k", "5">>

\* @revoked ab rsa k6
L_revoked == <<"@", "r", "e", "v", "o", "k", "e", "d", " ", "a", "b", " ", "r", "s", "a", " ", "k", "6">>

\* @revoked 1.0.0.0/24 rsa k7
L_net_revoked == <<"@", "r", "e", "v", "o", "k", "e", "d", " ", "1", ".", "0", ".", "0", ".", "0", "/", "2", "4", " ", "r", "s", "a", " ", "k", "7">>

\* ?b,!1.0.0.2 rsa k8
L_negated == <<"?", "b", ",", "!", "1", ".", "0", ".", "0", ".", "2", " ", "r", "s", "a", " ", "k", "8">>

\* |1|sa==|saab rsa k9
L_hashed == <<"|", "1", "|", "s", "a", "=", "=", "|", "s", "a", "a", "b", " ", "r", "s", "a", " ", "k", "9">>

\*  <TAB>
P_blank == <<" ", "\t">>

\* # ab rsa k0
P_comment == <<"#", " ", "a", "b", " ", "r", "s", "a", " ", "k", "0">>

\* ab
P_one_token == <<"a", "b">>

\* @revoked ab
P_marker_two_tokens == <<"@", "r", "e", "v", "o", "k", "e", "d", " ", "a", "b">>

\* @bogus ab rsa kb
P_bad_marker == <<"@", "b", "o", "g", "u", "s", " ", "a", "b", " ", "r", "s", "a", " ", "k", "b">>

\* |1|sa== rsa kc
P_hash_two_fields == <<"|", "1", "|", "s", "a", "=", "=", " ", "r", "s", "a", " ", "k", "c">>

\* |1|s|saab rsa kd
P_hash_bad_base64 == <<"|", "1", "|", "s", "|", "s", "a", "a", "b", " ", "r", "s", "a", " ", "k", "d">>

\* |2|sa==|saab rsa ke
P_hash_magic == <<"|", "2", "|", "s", "a", "=", "=", "|", "s", "a", "a", "b", " ", "r", "s", "a", " ", "k", "e">>

\* ab xyz kx
P_unknown_key == <<"a", "b", " ", "x", "y", "z", " ", "k", "x">>

\* @bogus ab xyz ky
P_bad_marker_unknown_key == <<"@", "b", "o", "g", "u", "s", " ", "a", "b", " ", "x", "y", "z", " ", "k", "y">>

\*  ab<TAB>rsa  k1 c
P_valid == <<" ", "a", "b", "\t", "r", "s", "a", " ", " ", "k", "1", " ", "c">>

\* @revoked ab rsa k6
P_valid_revoked == <<"@", "r", "e", "v", "o", "k", "e", "d", " ", "a", "b", " ", "r", "s", "a", " ", "k", "6">>

LookupLines == {L_host, L_pin, L_pin_revoked, L_addr, L_ca_glob, L_revoked, L_net_revoked, L_negated, L_hashed}

ParseLines == {P_blank, P_comment, P_one_token, P_marker_two_tokens, P_bad_marker, P_hash_two_fields, P_hash_bad_base64, P_hash_magic, P_unknown_key, P_bad_marker_unknown_key, P_valid, P_valid_revoked}

H_ab == <<"a", "b">>
H_cb == <<"c", "b">>

Hosts == {H_ab, H_cb}

Addresses == {None, <<1, 0, 0, 2>>, <<1, 0, 1, 2>>}

Ports == {DEFAULT_PORT, 7, 8}

PatternFields ==
    {<< >>,
     <<"a", "b">>,
     <<"[", "a", "b", "]", ":", "7">>,
     <<"1", ".", "0", ".", "0", ".", "2">>,
     <<"1", ".", "0", ".", "0", ".", "0", "/", "2", "4">>,
     <<"1", ".", "0", ".", "0", ".", "2", "/", "2", "4">>,
     <<"*", "b">>,
     <<"a", "?">>,
     <<"!", "a", "b">>,
     <<"!", "a", "b", ",", "!", "c", "b">>,
     <<"*", "b", ",", "!", "a", "b">>,
     <<"!", "1", ".", "0", ".", "0", ".", "2", ",", "a", "b">>,
     <<"a", "b", ",", "c", "b">>,
     <<"[", "1", ".", "0", ".", "0", ".", "2", "]", ":", "7">>,
     <<"!", "*">>,
     <<"1", ".", "0", ".", "0", ".", "0", "/", "2", "4", ",", "!", "1", ".", "0", ".", "0", ".", "2">>}

\* the files of at most n lines drawn from pool, each line ended by a line break
Files(pool, n) ==
    {Cat([k \in 1..Len(ls) |-> ls[k] \o <<NL>>]) :
        ls \in UNION {[1..k -> pool] : k \in 0..n}}

\* what HostList.matches is called with: plain and bracketed names, and none
MatchValues ==
    {<< >>}
    \cup {MatchHost(h, p) : h \in Hosts, p \in Ports}
    \cup {MatchAddr(i, p) : i \in Addresses, p \in Ports}
    \cup {f \in PatternFields : \A k \in 1..Len(f) : f[k] \notin {"*", "?", "!"}}

Idle ==
    /\ entries = << >>
    /\ host_keys = << >>
    /\ ca_keys = << >>
    /\ revoked_keys = << >>
    /\ passes = << >>
    /\ result = None
    /\ error = NoError
    /\ matched = FALSE

\* a call of match_known_hosts on a well-formed file
Init ==
    /\ pc = "start"
    /\ known_hosts \in Files(LookupLines, MaxLines)
    /\ host \in Hosts
    /\ ip \in Addresses
    /\ port \in Ports
    /\ pattern = << >>
    /\ addr = << >>
    /\ Idle

\* a call of match_known_hosts on a file that may be malformed
InitParse ==
    /\ pc = "start"
    /\ known_hosts \in Files(ParseLines, MaxLines)
    /\ host = H_ab
    /\ ip \in {None, <<1, 0, 0, 2>>}
    /\ port \in {DEFAULT_PORT, 7}
    /\ pattern = << >>
    /\ addr = << >>
    /\ Idle

\* a call of HostList(pattern).matches(host, addr, ip)
InitHostList ==
    /\ pc = "unit"
    /\ known_hosts = << >>
    /\ pattern \in PatternFields
    /\ host \in MatchValues
    /\ addr \in MatchValues
    /\ ip \in Addresses
    /\ port = DEFAULT_PORT
    /\ Idle

Next == Parse \/ PrimaryPass \/ FallbackPass \/ Return

Spec == Init /\ [][Next]_vars

SpecParse == InitParse /\ [][Next]_vars

NextHostList == HostListCall

SpecHostList == InitHostList /\ [][NextHostList]_vars

(***************************************************************************)
(* Properties                                                              *)
(***************************************************************************)

Elems(s) == {s[k] : k \in 1..Len(s)}

Returned(key) == key \in Elems(result[1]) \cup Elems(result[2]) \cup Elems(result[3])

\* the result of the bracketed (primary) pass and of the unbracketed pass
PrimaryResult == _match_entries(entries, host, ip, port)
UnbracketedResult == _match_entries(entries, host, ip, DEFAULT_PORT)

PrimaryFoundKey == PrimaryResult[1] # << >> \/ PrimaryResult[2] # << >>

MatchesBracketed(e) == EntryMatches(e, MatchHost(host, port), MatchAddr(ip, port), ip)
MatchesUnbracketed(e) ==
    EntryMatches(e, MatchHost(host, DEFAULT_PORT), MatchAddr(ip, DEFAULT_PORT), ip)

\* C1: match_known_hosts returns the primary pass unchanged when the port is the
\* default port or the primary pass found a host key or a CA key; otherwise it
\* returns exactly the three lists of the unbracketed pass, and a revoked key
\* that matched only the bracketed form is not among the returned revoked keys.
C1_ReturnsPrimaryOrFallback ==
    pc = "done" =>
        IF port = DEFAULT_PORT \/ PrimaryFoundKey
        THEN result = PrimaryResult
        ELSE /\ result = UnbracketedResult
             /\ \A k \in 1..Len(entries) :
                    ( /\ entries[k].marker = REVOKED
                      /\ MatchesBracketed(entries[k])
                      /\ ~MatchesUnbracketed(entries[k]) )
                    => entries[k].key \notin Elems(result[3])

\* C1 witness: a revoked key found by the bracketed pass alone is dropped
C1_Witness ==
    /\ pc = "done"
    /\ port # DEFAULT_PORT
    /\ PrimaryResult[3] # << >>
    /\ ~PrimaryFoundKey
    /\ result[3] = << >>

\* how far a call of match_known_hosts has come
Progress ==
    IF pc = "start" THEN 0 ELSE IF pc = "parsed" THEN 1 ELSE IF pc = "matched" THEN 2
    ELSE IF pc = "rematched" THEN 3 ELSE 4

Ended == pc \in {"done", "failed"}

\* C2: a lookup makes at most two match passes over the same parsed entries and
\* then ends: every step moves it forward, it is never stuck before it has
\* ended, and once ended it stays so; the second, unbracketed pass follows the
\* first and runs exactly when the port is not the default port and the first
\* pass found no host key and no CA key, whatever revoked keys it found; on the
\* default port there is exactly one pass.
C2_AtMostTwoPasses ==
    /\ [](Len(passes) <= 2)
    /\ [](pc = "done" =>
            passes = IF port # DEFAULT_PORT /\ ~PrimaryFoundKey
                     THEN <<port, DEFAULT_PORT>>
                     ELSE <<port>>)
    /\ [][passes' # passes =>
            /\ entries' = entries
            /\ passes' = Append(passes, IF passes = << >> THEN port ELSE DEFAULT_PORT)]_vars
    /\ [][Progress' > Progress /\ ~Ended]_vars
    /\ [](Ended \/ AtParse \/ AtPrimaryPass \/ AtFallbackPass \/ AtReturn)

\* C2 witness: a lookup that ended after a second pass although the first pass
\* found a revoked key
C2_Witness ==
    /\ pc = "done"
    /\ passes = <<port, DEFAULT_PORT>>
    /\ PrimaryResult[3] # << >>
    /\ Len(entries) = 2

RECURSIVE KeysOfPass(_, _, _)
\* the keys, in entry order, of the entries with marker m that match in a pass
\* on port p
KeysOfPass(es, m, p) ==
    IF es = << >> THEN << >>
    ELSE IF Head(es).marker = m
            /\ EntryMatches(Head(es), MatchHost(host, p), MatchAddr(ip, p), ip)
         THEN <<Head(es).key>> \o KeysOfPass(Tail(es), m, p)
         ELSE KeysOfPass(Tail(es), m, p)

LastPort == passes[Len(passes)]

\* C3: after every pass, host_keys, ca_keys and revoked_keys hold, in entry
\* order, the keys of the matching entries with no marker, with the
\* cert-authority marker and with the revoked marker; together they hold one
\* key for each matching entry and none for the others.
C3_OneListPerEntry ==
    pc \in {"matched", "rematched"} =>
        /\ host_keys = KeysOfPass(entries, None, LastPort)
        /\ ca_keys = KeysOfPass(entries, CERT_AUTHORITY, LastPort)
        /\ revoked_keys = KeysOfPass(entries, REVOKED, LastPort)
        /\ Len(host_keys) + Len(ca_keys) + Len(revoked_keys)
             = Cardinality({k \in 1..Len(entries) :
                   EntryMatches(entries[k], MatchHost(host, LastPort),
                                MatchAddr(ip, LastPort), ip)})

\* C3 witness: a pass in which one entry matched as revoked, one as a host key
C3_Witness ==
    /\ pc \in {"matched", "rematched"}
    /\ Len(revoked_keys) = 1
    /\ Len(host_keys) = 1
    /\ ca_keys = << >>

PieceMatches(piece) == PatternMatches(MakePattern(Unnegated(piece)), host, addr, ip)

Pieces == SplitOn(pattern, ",")

SomePositiveMatches == \E k \in 1..Len(Pieces) : ~Negated(Pieces[k]) /\ PieceMatches(Pieces[k])
SomeNegatedMatches == \E k \in 1..Len(Pieces) : Negated(Pieces[k]) /\ PieceMatches(Pieces[k])

\* C4: HostList.matches is true exactly when some pattern without '!' matches
\* and no pattern with '!' matches, wherever the patterns stand in the field.
C4_PositiveAndNotNegative ==
    pc = "unit done" => (matched <=> (SomePositiveMatches /\ ~SomeNegatedMatches))

\* C4 witness: a negated pattern standing first overrides a later positive match
C4_Witness ==
    /\ pc = "unit done"
    /\ Negated(Pieces[1])
    /\ SomeNegatedMatches
    /\ SomePositiveMatches
    /\ ~matched

\* entry e is a host list made of the one pattern [h]:p
Pins(e, h, p) ==
    /\ e.kind = "HostList"
    /\ e.neg = << >>
    /\ e.pos = <<WildcardPattern(Bracketed(h, p))>>

InLists(key) == key \in Elems(host_keys) \cup Elems(ca_keys) \cup Elems(revoked_keys)

\* C5 as claimed: the key of an entry [h]:p is returned by the lookup of h on
\* port p, and by no lookup of h on another port.
C5_PinnedKeyReturned ==
    pc = "done" =>
        \A k \in 1..Len(entries) : \A p \in Ports \ {DEFAULT_PORT} :
            Pins(entries[k], host, p) =>
                /\ port = p => Returned(entries[k].key)
                /\ port # p => ~Returned(entries[k].key)

\* C5, amended: the key of an entry [h]:p is found by the bracketed pass of the
\* lookup of h on port p, and that lookup returns it unless the entry is
\* revoked and the bracketed pass found no host key and no CA key (the result
\* is then the unbracketed pass's, which does not hold it); no pass of a lookup
\* of h on another port finds it, and no such lookup returns it.
C5_PinnedKeyReturnedUnlessDropped ==
    \A k \in 1..Len(entries) : \A p \in Ports \ {DEFAULT_PORT} :
        Pins(entries[k], host, p) =>
            /\ (pc = "matched" /\ port = p) => InLists(entries[k].key)
            /\ (pc = "done" /\ port = p) =>
                  (Returned(entries[k].key)
                     <=> ~(entries[k].marker = REVOKED /\ ~PrimaryFoundKey))
            /\ (pc \in {"matched", "rematched"} /\ port # p) => ~InLists(entries[k].key)
            /\ (pc = "done" /\ port # p) => ~Returned(entries[k].key)

\* C5 witness: a lookup on the pinned port returned the pinned key, found in the
\* bracketed pass
C5_Witness ==
    /\ pc = "done"
    /\ port # DEFAULT_PORT
    /\ passes = <<port>>
    /\ \E k \in 1..Len(entries) :
          Pins(entries[k], host, port) /\ Returned(entries[k].key)

\* the stripped content lines of the file
RECURSIVE ContentOf(_)
ContentOf(ls) ==
    IF ls = << >> THEN << >>
    ELSE IF IsContent(Strip(Head(ls))) THEN <<Strip(Head(ls))>> \o ContentOf(Tail(ls))
    ELSE ContentOf(Tail(ls))

ContentLines == ContentOf(SplitLines(known_hosts))

BadLines == {k \in 1..Len(ContentLines) : LineError(ContentLines[k]) # NoError}

FirstBadLine == CHOOSE k \in BadLines : \A j \in BadLines : k <= j

\* C6: when a line of the file has a structural error, the parse raises the
\* error of the first such line and the lookup ends there: no pass runs and no
\* key list is returned, whatever the lines before and after it hold.
C6_StructuralErrorAborts ==
    (pc # "start" /\ BadLines # {}) =>
        /\ pc = "failed"
        /\ error = LineError(ContentLines[FirstBadLine])
        /\ error.msg \in {"Invalid known hosts entry", "Invalid known hosts marker",
                          "Invalid known hosts hash entry", "Invalid known hosts hash type"}
        /\ entries = << >>
        /\ passes = << >>
        /\ result = None

\* C6 witness: the lookup failed on the second line although the first line is
\* a valid entry that matches the host
C6_Witness ==
    /\ pc = "failed"
    /\ Len(ContentLines) = 2
    /\ FirstBadLine = 2
    /\ import_public_key(LineTokens(ContentLines[1])[3]).ok
    /\ MatchesBracketed(LineEntry(ContentLines[1]))

\* the line splits into tokens and its key material has an unrecognized format
UnknownKey(line) ==
    LineTokens(line) # << >> /\ ~import_public_key(LineTokens(line)[3]).ok

RECURSIVE KnownKeyLines(_)
KnownKeyLines(ls) ==
    IF ls = << >> THEN << >>
    ELSE IF UnknownKey(Head(ls)) THEN KnownKeyLines(Tail(ls))
    ELSE <<Head(ls)>> \o KnownKeyLines(Tail(ls))

\* one entry for each content line whose key is not of an unrecognized format
EntryPerOtherLine ==
    /\ pc # "failed"
    /\ LET ls == KnownKeyLines(ContentLines)
       IN  entries = [k \in 1..Len(ls) |-> LineEntry(ls[k])]

\* C7 as claimed: a line with an unrecognized key format never aborts the
\* parse, so when all other content lines are well formed the parse result
\* holds one entry for each of them, in file order.
C7_UnknownKeyNeverAborts ==
    ( /\ pc # "start"
      /\ \A k \in 1..Len(ContentLines) :
            UnknownKey(ContentLines[k]) \/ LineError(ContentLines[k]) = NoError )
    => EntryPerOtherLine

\* C7, amended: a line with an unrecognized key format that has no structural
\* error is skipped and the parse goes on, so when no content line has a
\* structural error the parse result holds one entry for each content line
\* whose key format is recognized, in file order.
C7_WellFormedUnknownKeySkipped ==
    (pc # "start" /\ BadLines = {}) => EntryPerOtherLine

\* C7 witness: a line with an unknown key was skipped and the line after it
\* became the only entry
C7_Witness ==
    /\ pc = "parsed"
    /\ Len(ContentLines) = 2
    /\ UnknownKey(ContentLines[1])
    /\ Len(entries) = 1
    /\ entries[1] = LineEntry(ContentLines[2])

IsPlainLiteral(e) ==
    /\ e.kind = "HostList"
    /\ e.neg = << >>
    /\ \A k \in 1..Len(e.pos) :
          \/ e.pos[k].kind = "cidr"
          \/ \A j \in 1..Len(e.pos[k].pat) : e.pos[k].pat[j] \notin {"*", "?", "[", "]"}

OnlyPlainLiterals == \A k \in 1..Len(entries) : IsPlainLiteral(entries[k])

\* a host-key or CA entry has an address or subnet pattern that holds ip
AddressEntryFindsKey ==
    \E k \in 1..Len(entries) :
        /\ entries[k].marker # REVOKED
        /\ \E j \in 1..Len(entries[k].pos) :
              /\ entries[k].pos[j].kind = "cidr"
              /\ ip # None
              /\ InNetwork(ip, entries[k].pos[j].net)

\* the lookup returned what the lookup on the default port returns
SameResultAsDefaultPort == result = MatchKnownHosts(entries, host, ip, DEFAULT_PORT)

\* the lookup fell back, and returned what the lookup on the default port returns
SameAsDefaultPort ==
    /\ passes = <<port, DEFAULT_PORT>>
    /\ SameResultAsDefaultPort

\* C8 as claimed: with only plain literal patterns in the file, a lookup on a
\* non-default port returns what the lookup on the default port returns.
C8_PlainFileSameAsDefaultPort ==
    (pc = "done" /\ port # DEFAULT_PORT /\ OnlyPlainLiterals) => SameResultAsDefaultPort

\* C8, amended: such a lookup falls back and returns what the lookup on the
\* default port returns, provided no host-key or CA entry has an address or
\* subnet pattern that holds ip (such a pattern matches in the bracketed pass
\* too, and its key then suppresses the fallback).
C8_PlainFileSameUnlessAddressMatches ==
    (pc = "done" /\ port # DEFAULT_PORT /\ OnlyPlainLiterals /\ ~AddressEntryFindsKey)
        => SameAsDefaultPort

\* C8 witness: a lookup on a non-default port of a file of plain literals fell
\* back and returned a host key and a revoked key
C8_Witness ==
    /\ pc = "done"
    /\ port # DEFAULT_PORT
    /\ OnlyPlainLiterals
    /\ ~AddressEntryFindsKey
    /\ SameAsDefaultPort
    /\ result[1] # << >>
    /\ result[3] # << >>
    /\ PrimaryResult[3] # << >>

NoWildcardNoNegation(f) == \A k \in 1..Len(f) : f[k] \notin {"*", "?", "!"}

\* a field that is one non-empty pattern without wildcard and negation
IsPlainPattern(f) ==
    /\ f # << >>
    /\ NoWildcardNoNegation(f)
    /\ \A k \in 1..Len(f) : f[k] # ","

\* C9 as claimed: a pattern without wildcard and negation matches itself as
\* host, whatever addr and ip are.
C9_SelfMatch ==
    (pc = "unit done" /\ IsPlainPattern(pattern) /\ host = pattern) => matched

\* C9, amended: a pattern (one non-empty piece of a field) without wildcard
\* and negation that does not parse as an IP address or network matches itself as host, whatever
\* addr and ip are; one that parses as an address or network matches itself
\* exactly when ip is given and lies in it.
C9_SelfMatchOfNames ==
    (pc = "unit done" /\ IsPlainPattern(pattern) /\ host = pattern)
    => IF ip_network(pattern).ok
       THEN matched <=> (ip # None /\ InNetwork(ip, ip_network(pattern)))
       ELSE matched

\* C9 witness: a bracketed pattern matched itself with no ip and another addr
C9_Witness ==
    /\ pc = "unit done"
    /\ host = pattern
    /\ IsPlainPattern(pattern)
    /\ \E k \in 1..Len(pattern) : pattern[k] = "["
    /\ ip = None
    /\ addr # << >>
    /\ addr # pattern
    /\ matched

\* C10: a pattern that parses as an IP address or network is built as a CIDR
\* pattern, and it matches exactly when ip is given and lies in the network,
\* whatever host and addr are (plain or bracketed).
C10_CIDRMatchesOnIpOnly ==
    ( /\ pc = "unit done"
      /\ \A k \in 1..Len(pattern) : pattern[k] # ","
      /\ ip_network(pattern).ok )
    => /\ HostList(pattern).pos = <<CIDRPattern(pattern)>>
       /\ HostList(pattern).neg = << >>
       /\ matched <=> (ip # None /\ InNetwork(ip, ip_network(pattern)))

\* C10 witness: an address pattern given as host, and as addr in bracketed
\* form, did not match without ip
C10_Witness ==
    /\ pc = "unit done"
    /\ ip_network(pattern).ok
    /\ host = pattern
    /\ addr = Bracketed(pattern, 7)
    /\ ip = None
    /\ ~matched

\* C10 witness, the other way: a subnet pattern matched on ip alone
C10_WitnessInside ==
    /\ pc = "unit done"
    /\ ip_network(pattern).ok
    /\ host = << >>
    /\ addr = << >>
    /\ ip # None
    /\ matched

====
